---- MODULE Spec2Model ----
(***************************************************************************)
(* Model of src/src/_requests.py: the three functions _get, _post and _put *)
(* of a client of the Maintenance Connection v8 web API.                   *)
(*                                                                         *)
(* A behaviour is one invocation of one of the functions from a fresh      *)
(* interpreter state: the functions keep nothing between calls (the only   *)
(* module-level object, auth, is never written after import).  The remote  *)
(* server is the environment: the response a call receives is an input of  *)
(* the action.  What a caller or a test double can observe of the call is  *)
(* the state: the requests handed to the requests library, the lines       *)
(* printed, and the value returned or the exception propagated.            *)
(***************************************************************************)
EXTENDS Integers, Sequences, FiniteSets, TLC

VARIABLES phase, call, response, sent, printed, events, result

vars == <<phase, call, response, sent, printed, events, result>>

(***************************************************************************)
(* Python / JSON values, tagged by type.                                   *)
(***************************************************************************)
None == [t |-> "null"]
Str(s) == [t |-> "str", v |-> s]
Num(n) == [t |-> "num", v |-> n]
Bool(b) == [t |-> "bool", v |-> b]
Arr(s) == [t |-> "arr", v |-> s]
Obj(f) == [t |-> "obj", v |-> f]

\* The empty dict {}.
EmptyDict == Obj([k \in {} |-> None])

\* Only dict has a .get method; calling .get on None, str, int, bool or list
\* raises AttributeError.
HasGet(x) == x.t = "obj"

\* d.get(key, None) on a dict d.
DictGet(d, key) == IF key \in DOMAIN d.v THEN d.v[key] ELSE None

\* d[key] = value on a dict d.
DictSet(d, key, value) ==
    Obj([k \in (DOMAIN d.v) \cup {key} |-> IF k = key THEN value ELSE d.v[k]])

\* Python truthiness, as used by "if _filter:".
Truthy(x) ==
    CASE x.t = "null" -> FALSE
      [] x.t = "str" -> x.v # ""
      [] x.t = "num" -> x.v # 0
      [] x.t = "bool" -> x.v
      [] x.t = "arr" -> Len(x.v) > 0
      [] x.t = "obj" -> DOMAIN x.v # {}

Digit(d) ==
    CASE d = 0 -> "0" [] d = 1 -> "1" [] d = 2 -> "2" [] d = 3 -> "3"
      [] d = 4 -> "4" [] d = 5 -> "5" [] d = 6 -> "6" [] d = 7 -> "7"
      [] d = 8 -> "8" [] d = 9 -> "9"

RECURSIVE NatStr(_)
NatStr(n) == IF n < 10 THEN Digit(n) ELSE NatStr(n \div 10) \o Digit(n % 10)

IntStr(n) == IF n < 0 THEN "-" \o NatStr(-n) ELSE NatStr(n)

\* What an f-string replacement field {x} inserts for None, a str, an int
\* or a bool.
PyStr(x) ==
    CASE x.t = "null" -> "None"
      [] x.t = "str" -> x.v
      [] x.t = "num" -> IntStr(x.v)
      [] x.t = "bool" -> IF x.v THEN "True" ELSE "False"

\* How a function call ends.
Return(value) == [kind |-> "return", exc |-> "", value |-> value]
Raise(exc) == [kind |-> "raise", exc |-> exc, value |-> None]

\* config.server
Server == "server"


(***************************************************************************)
(* _get: the query string, the URL, the log line.                          *)
(***************************************************************************)
\* Faulty variant: the filter expression is left with plain spaces.
BuildQueryUnencoded(_filter, operator, identifier, top, skip) ==
    IF Truthy(_filter)
    THEN "?$filter=" \o PyStr(_filter) \o " " \o PyStr(operator) \o " \""
         \o PyStr(identifier) \o "\"&$top=" \o PyStr(top) \o "&$skip=" \o PyStr(skip)
    ELSE "?$top=" \o PyStr(top) \o "&$skip=" \o PyStr(skip)

BuildQuery(_filter, operator, identifier, top, skip) ==
    IF Truthy(_filter)
    THEN "?$filter=" \o PyStr(_filter) \o "%20" \o PyStr(operator) \o "%20\""
         \o PyStr(identifier) \o "\"&$top=" \o PyStr(top) \o "&$skip=" \o PyStr(skip)
    ELSE "?$top=" \o PyStr(top) \o "&$skip=" \o PyStr(skip)

GetUrl(module, query) == "http://" \o Server \o "/v8/" \o module \o query

\* Faulty variant: a response that is not ok is requested once more.
GetSendRetry(url, r) ==
    IF r.ok = TRUE
    THEN <<[method |-> "GET", url |-> url, json |-> None]>>
    ELSE <<[method |-> "GET", url |-> url, json |-> None],
           [method |-> "GET", url |-> url, json |-> None]>>

\* requests.get(url, auth=auth): the requests handed to the library.
GetSend(url, r) == <<[method |-> "GET", url |-> url, json |-> None]>>

\* The argument of the print call that follows the request.
GetLog(r) ==
    IF r.ok = TRUE
    THEN "Connection Successful!\nStatus Code: " \o IntStr(r.status_code) \o "\n"
    ELSE "Connection NOT Successful\nStatus Code: " \o IntStr(r.status_code) \o "\n"

(***************************************************************************)
(* Reading the body.                                                       *)
(***************************************************************************)
\* r.json(): the parsed body, or the decode error of a body that is not JSON.
RJson(r) == IF r.parseable THEN Return(r.body) ELSE Raise("JSONDecodeError")

\* x[key] for a str key: a dict without the key raises KeyError, every other
\* type raises TypeError.
Subscript(x, key) ==
    IF x.t = "obj"
    THEN IF key \in DOMAIN x.v THEN Return(x.v[key]) ELSE Raise("KeyError")
    ELSE Raise("TypeError")

RECURSIVE SetToSeq(_)
SetToSeq(S) ==
    IF S = {} THEN <<>>
    ELSE LET k == CHOOSE k \in S : TRUE IN <<Str(k)>> \o SetToSeq(S \ {k})

\* "for result in results": a list yields its elements, a str its characters,
\* a dict its keys; None, int and bool are not iterable.
Iterate(x) ==
    CASE x.t = "arr" -> Return(x.v)
      [] x.t = "str" -> Return([i \in 1..Len(x.v) |-> Str(SubSeq(x.v, i, i))])
      [] x.t = "obj" -> Return(SetToSeq(DOMAIN x.v))
      [] OTHER -> Raise("TypeError")

(***************************************************************************)
(* The normalization loop of _get.                                         *)
(***************************************************************************)
\* Faulty variant: a key the result lacks is not assigned, so the accumulator keeps
\* the value of an earlier iteration.
AssignScalarIfPresent(_resp, rawres, key) ==
    IF key \in DOMAIN rawres.v THEN DictSet(_resp, key, rawres.v[key]) ELSE _resp

\* _resp[key] = result.get(key, None)
AssignScalar(_resp, rawres, key) == DictSet(_resp, key, DictGet(rawres, key))

\* Faulty variant: the nested object is kept whole.
AssignNestedWhole(_resp, rawres, key, inner) ==
    DictSet(_resp, key, DictGet(rawres, key))

\* Faulty variant: the nested object, not its inner value, is put under the inner key.
AssignNestedWrap(_resp, rawres, key, inner) ==
    LET x == DictGet(rawres, key)
    IN  IF HasGet(x)
        THEN DictSet(_resp, key, Obj(inner :> x))
        ELSE DictSet(_resp, key, x)

\* try: _resp[key] = {inner: result.get(key, None).get(inner, None)}
\* except AttributeError: _resp[key] = result.get(key, None)
AssignNested(_resp, rawres, key, inner) ==
    LET x == DictGet(rawres, key)
    IN  IF HasGet(x)
        THEN DictSet(_resp, key, Obj(inner :> DictGet(x, inner)))
        ELSE DictSet(_resp, key, x)

\* One iteration's assignments to the accumulator _resp, in source order.
LoopBody(_resp, rawres) ==
    LET r1 == AssignScalar(_resp, rawres, "PK")
        r2 == AssignScalar(r1, rawres, "ID")
        r3 == AssignScalar(r2, rawres, "Name")
        r4 == AssignScalar(r3, rawres, "IsLocation")
        r5 == AssignScalar(r4, rawres, "Vicinity")
        r6 == AssignScalar(r5, rawres, "Icon")
        r7 == AssignScalar(r6, rawres, "UDFChar9")
        r8 == AssignNested(r7, rawres, "ParentRef", "ID")
        r9 == AssignNested(r8, rawres, "ClassificationRef", "ID")
        r10 == AssignNested(r9, rawres, "RepairCenterRef", "ID")
        r11 == AssignNested(r10, rawres, "ShopRef", "ID")
    IN  AssignNested(r11, rawres, "TypeDetails", "Value")

\* copy.deepcopy(_resp): an equal value that shares nothing with _resp.
DeepCopy(x) == x

\* The for loop from its i-th iteration on: result.get on an element that is
\* not a dict raises AttributeError outside every try block.
RECURSIVE Loop(_, _, _, _)
Loop(results, i, _resp, collection) ==
    IF i > Len(results) THEN Return(Arr(collection))
    ELSE IF ~HasGet(results[i]) THEN Raise("AttributeError")
    ELSE LET next == LoopBody(_resp, results[i])
         IN  Loop(results, i + 1, next, Append(collection, DeepCopy(next)))

\* The else branch of "if raw": _resp = {}, collection = [], the loop.
Normalize(results) ==
    LET it == Iterate(results)
    IN  IF it.kind = "raise" THEN it ELSE Loop(it.value, 1, EmptyDict, <<>>)

\* Faulty variant: the raw flag is ignored and every collection is normalized.
GetCollectionIgnoresRaw(raw, r) ==
    LET body == RJson(r)
    IN  IF body.kind = "raise" THEN body
        ELSE LET results == Subscript(body.value, "Results")
             IN  IF results.kind = "raise" THEN results
                 ELSE Normalize(results.value)

\* Faulty variant: a response that is not ok raises before the body is read.
GetCollectionRaisesForStatus(raw, r) ==
    IF r.ok # TRUE THEN Raise("HTTPError")
    ELSE LET body == RJson(r)
         IN  IF body.kind = "raise" THEN body
             ELSE LET results == Subscript(body.value, "Results")
                  IN  IF results.kind = "raise" THEN results
                      ELSE IF raw THEN Return(results.value)
                      ELSE Normalize(results.value)

\* From r.json()["Results"] to the return statement.
GetCollection(raw, r) ==
    LET body == RJson(r)
    IN  IF body.kind = "raise" THEN body
        ELSE LET results == Subscript(body.value, "Results")
             IN  IF results.kind = "raise" THEN results
                 ELSE IF raw THEN Return(results.value)
                 ELSE Normalize(results.value)

\* The order of the call's effects: the request, the print, the body read,
\* and the way the call ends.
CallEvents(requests, out) ==
    [i \in 1..Len(requests) |-> "request"] \o <<"print", "json", out.kind>>

(***************************************************************************)
(* _post and _put.                                                         *)
(***************************************************************************)
MutationUrl(module) == "http://" \o Server \o "/v8/" \o module

\* requests.post(url, auth=auth, json=data)
PostSend(url, data) == <<[method |-> "POST", url |-> url, json |-> data]>>

\* requests.put(url, auth=auth, json=data)
PutSend(url, data) == <<[method |-> "PUT", url |-> url, json |-> data]>>

\* module[:-1]
DropLast(s) == SubSeq(s, 1, Len(s) - 1)

PostLog(module, r) ==
    IF r.ok = TRUE
    THEN "Connection Successful!\nStatus Code: " \o IntStr(r.status_code)
         \o "\nThe " \o DropLast(module) \o " has been added\n"
    ELSE "Connection NOT Successful\nStatus Code: " \o IntStr(r.status_code) \o "\n"

PutLog(module, r) ==
    IF r.ok = TRUE
    THEN "Connection Successful!\nStatus Code: " \o IntStr(r.status_code)
         \o "\nThe " \o DropLast(module) \o " has been updated\n"
    ELSE "Connection NOT Successful\nStatus Code: " \o IntStr(r.status_code) \o "\n"

\* _resp = r.json(); return _resp
PostReturn(r) == RJson(r)

\* Faulty variant: the body of a response that is not ok is not returned.
PutReturnChecked(r) == IF r.ok = TRUE THEN RJson(r) ELSE Return(None)

PutReturn(r) == RJson(r)

(***************************************************************************)
(* The calls.  Each is the whole function, from its first statement to its *)
(* return or to the exception it lets through.                             *)
(***************************************************************************)
NoCall ==
    [fn |-> "", module |-> "", _filter |-> None, operator |-> None,
     identifier |-> None, top |-> None, skip |-> None, raw |-> FALSE,
     data |-> None]

NoResponse == [status_code |-> 0, ok |-> FALSE, parseable |-> FALSE, body |-> None]

NoResult == [kind |-> "", exc |-> "", value |-> None]

Init ==
    /\ phase = "idle"
    /\ call = NoCall
    /\ response = NoResponse
    /\ sent = <<>>
    /\ printed = <<>>
    /\ events = <<>>
    /\ result = NoResult

Get(module, _filter, operator, identifier, top, skip, raw, r) ==
    /\ LET query == BuildQuery(_filter, operator, identifier, top, skip)
           url == GetUrl(module, query)
           requests == GetSend(url, r)
           collection == GetCollection(raw, r)
       IN  /\ sent' = requests
           /\ printed' = <<GetLog(r)>>
           /\ result' = collection
           /\ events' = CallEvents(requests, collection)
    /\ call' = [fn |-> "_get", module |-> module, _filter |-> _filter,
                operator |-> operator, identifier |-> identifier, top |-> top,
                skip |-> skip, raw |-> raw, data |-> None]
    /\ response' = r
    /\ phase' = "done"

Post(module, data, r) ==
    /\ LET url == MutationUrl(module)
           requests == PostSend(url, data)
           _resp == PostReturn(r)
       IN  /\ sent' = requests
           /\ printed' = <<PostLog(module, r)>>
           /\ result' = _resp
           /\ events' = CallEvents(requests, _resp)
    /\ call' = [NoCall EXCEPT !.fn = "_post", !.module = module, !.data = data]
    /\ response' = r
    /\ phase' = "done"

Put(module, data, r) ==
    /\ LET url == MutationUrl(module)
           requests == PutSend(url, data)
           _resp == PutReturn(r)
       IN  /\ sent' = requests
           /\ printed' = <<PutLog(module, r)>>
           /\ result' = _resp
           /\ events' = CallEvents(requests, _resp)
    /\ call' = [NoCall EXCEPT !.fn = "_put", !.module = module, !.data = data]
    /\ response' = r
    /\ phase' = "done"

(***************************************************************************)
(* Inputs.                                                                 *)
(***************************************************************************)
\* Longest Results array and longest batch of records.
MaxResults == 2

\* Most keys present in a generated raw record.
MaxFields == 2

Modules == {"assets", "classifications"}

Filters == {None, Str(""), Str("ID"), Str("RepairCenterRef.ID")}

Operators == {None, Str("eq")}

Identifiers == {None, Str("SHI-V-1405")}

Tops == {None, Num(50), Num(5)}

Skips == {None, Num(0), Num(10)}

Statuses == {200, 304, 404, 500}

\* requests.Response.ok: False exactly when raise_for_status would raise.
ROk(status) == ~(400 <= status /\ status < 600)

\* Scenario B of the specification.
RecB ==
    Obj([PK |-> Num(1), ID |-> Str("X"),
         ParentRef |-> Obj([ID |-> Str("Y"), Name |-> Str("ignored")])])

\* Scenario C of the specification.
RecC ==
    Obj([PK |-> Num(2), ID |-> Str("Z"), Name |-> Str("N"), ParentRef |-> None,
         TypeDetails |-> Obj([Value |-> Str("A")])])

\* The data example in the docstring of _put, with one key the client does
\* not know.
RecFull ==
    Obj([PK |-> Num(20773), ID |-> Str("SHI-V-1405"),
         Name |-> Str("V-1405 Flash Separator"), IsLocation |-> Bool(FALSE),
         Vicinity |-> Str("SHNR-PID-1104"),
         Icon |-> Str("iconlib/CL/classifications/cylindar_g.gif"),
         UDFChar9 |-> Str("SHI-V-1405"),
         ParentRef |-> Obj([ID |-> Str("SHI-INLET FLASH GAS AREA")]),
         ClassificationRef |-> Obj([ID |-> Str("V"), PK |-> Num(7)]),
         RepairCenterRef |-> Obj([ID |-> Str("SA-HUBS-SHI")]),
         ShopRef |-> Obj([ID |-> Str("SA-HUBS-SHI-OPS")]),
         TypeDetails |-> Obj([Value |-> Str("A"), Name |-> Str("Asset")]),
         LastModifiedDate |-> Str("2012-10-15")])

\* A reference that is a string, and one that is an object without ID.
RecOdd == Obj([ID |-> Str("W"), ShopRef |-> Str("abc"), ParentRef |-> EmptyDict])

RecordPool == {EmptyDict, RecB, RecC, RecFull, RecOdd}

\* What a Results array may hold: records, and one element that is no object.
ElementPool == RecordPool \cup {Str("oops")}

\* The keys the loop of _get reads, and one it does not.
ScalarKeys == {"PK", "ID", "Name", "IsLocation", "Vicinity", "Icon", "UDFChar9"}

RefKeys == {"ParentRef", "ClassificationRef", "RepairCenterRef", "ShopRef"}

RawKeys == ScalarKeys \cup RefKeys \cup {"TypeDetails", "LastModifiedDate"}

\* Values a key of a raw record may hold: null, a string, a number, a boolean,
\* an array, and objects with and without the keys ID and Value.
FieldValues ==
    {None, Str("X"), Num(1), Bool(TRUE), Arr(<<>>),
     Obj([ID |-> Str("Y"), Name |-> Str("ignored")]),
     Obj([Value |-> Str("A"), Name |-> None])}

\* Every raw record with at most MaxFields of the keys present.
RawRecords ==
    {Obj(f) : f \in UNION {[K -> FieldValues] :
                             K \in {S \in SUBSET RawKeys : Cardinality(S) <= MaxFields}}}

SeqsUpTo(S, n) == UNION {[1..k -> S] : k \in 0..n}

Batches == {Arr(s) : s \in SeqsUpTo(RecordPool, MaxResults)}

ResultsValues == {Arr(s) : s \in SeqsUpTo(ElementPool, MaxResults)} \cup {None}

GetBodies ==
    {Obj([Results |-> x]) : x \in ResultsValues}
    \cup {Obj([Results |-> Arr(<<RecB>>), Total |-> Num(1)]),
          Obj([Message |-> Str("Authorization has been denied")]),
          EmptyDict, Arr(<<>>), None}

MutationBodies ==
    {Arr(<<>>), Arr(<<Obj([PK |-> Num(20773), ID |-> Str("SHI-V-1405")])>>),
     Obj([Message |-> Str("The request is invalid")]), Str("ok"), None}

Unparseable(status) ==
    [status_code |-> status, ok |-> ROk(status), parseable |-> FALSE, body |-> None]

Responses(bodies) ==
    {[status_code |-> s, ok |-> ROk(s), parseable |-> TRUE, body |-> b] :
        s \in Statuses, b \in bodies}
    \cup {Unparseable(s) : s \in Statuses}

GetResponses == Responses(GetBodies)

MutationResponses == Responses(MutationBodies)

QueryArgs ==
    [module : Modules, _filter : Filters, operator : Operators,
     identifier : Identifiers, top : Tops, skip : Skips]

\* Scenario A of the specification, and a call with the module alone.
ScenarioA ==
    [module |-> "assets", _filter |-> Str("ID"), operator |-> Str("eq"),
     identifier |-> Str("SHI-V-1405"), top |-> Num(50), skip |-> Num(0)]

ModuleOnly ==
    [module |-> "classifications", _filter |-> None, operator |-> None,
     identifier |-> None, top |-> None, skip |-> None]

\* Every query against a few responses, a few queries against every
\* response, and one query against every generated raw record.
GetInputs ==
    (QueryArgs \X BOOLEAN \X Responses({Obj([Results |-> Arr(<<RecB>>)]), EmptyDict}))
    \cup ({ScenarioA, ModuleOnly} \X BOOLEAN \X GetResponses)
    \cup ({ModuleOnly} \X {FALSE}
          \X {[status_code |-> 200, ok |-> ROk(200), parseable |-> TRUE,
               body |-> Obj([Results |-> Arr(<<rec>>)])] : rec \in RawRecords})

GetCall ==
    /\ phase = "idle"
    /\ \E in \in GetInputs :
        Get(in[1].module, in[1]._filter, in[1].operator, in[1].identifier,
            in[1].top, in[1].skip, in[2], in[3])

PostCall ==
    /\ phase = "idle"
    /\ \E module \in Modules, data \in Batches, r \in MutationResponses :
        Post(module, data, r)

PutCall ==
    /\ phase = "idle"
    /\ \E module \in Modules, data \in Batches, r \in MutationResponses :
        Put(module, data, r)

Next == GetCall \/ PostCall \/ PutCall

Spec == Init /\ [][Next]_vars

(***************************************************************************)
(* Properties.                                                             *)
(***************************************************************************)
GetDone == phase = "done" /\ call.fn = "_get"

MutationDone == phase = "done" /\ call.fn \in {"_post", "_put"}

\* The body of the response is a JSON object with a Results key.
HasResults ==
    /\ response.parseable
    /\ response.body.t = "obj"
    /\ "Results" \in DOMAIN response.body.v

Results == response.body.v["Results"]

\* Results is an array of objects.
ResultObjects ==
    /\ HasResults
    /\ Results.t = "arr"
    /\ \A i \in 1..Len(Results.v) : Results.v[i].t = "obj"

\* A call of _get in non-raw mode over an array of result objects.
NormalizedCall == GetDone /\ ~call.raw /\ ResultObjects

NestedKeys == RefKeys \cup {"TypeDetails"}

TwelveKeys == ScalarKeys \cup NestedKeys

\* The one key kept of a nested field.
InnerKey(key) == IF key = "TypeDetails" THEN "Value" ELSE "ID"

\* The value of a key of a raw object, null when the key is absent.
Field(object, key) == IF key \in DOMAIN object.v THEN object.v[key] ELSE None

FailureLine(status) ==
    "Connection NOT Successful\nStatus Code: " \o IntStr(status) \o "\n"

SuccessLine(status) ==
    "Connection Successful!\nStatus Code: " \o IntStr(status) \o "\n"

\* C1: the single GET of _get goes to http://<server>/v8/<module> followed by
\* the query string, which is ?$filter=<field>%20<op>%20"<id>"&$top=<top>&$skip=<skip>
\* when a filter is supplied and ?$top=<top>&$skip=<skip> when it is absent
\* (None or empty); operator and identifier appear only in the filter case.
C1_QueryTemplate ==
    GetDone =>
        /\ Len(sent) = 1
        /\ sent[1].method = "GET"
        /\ sent[1].url =
             "http://" \o Server \o "/v8/" \o call.module \o
             (IF call._filter \notin {None, Str("")}
              THEN "?$filter=" \o PyStr(call._filter) \o "%20" \o PyStr(call.operator)
                   \o "%20" \o "\"" \o PyStr(call.identifier) \o "\""
                   \o "&$top=" \o PyStr(call.top) \o "&$skip=" \o PyStr(call.skip)
              ELSE "?$top=" \o PyStr(call.top) \o "&$skip=" \o PyStr(call.skip))
        /\ (call.module = "assets" /\ call._filter = Str("ID")
            /\ call.operator = Str("eq") /\ call.identifier = Str("SHI-V-1405")
            /\ call.top = Num(50) /\ call.skip = Num(0))
           => sent[1].url =
                "http://server/v8/assets?$filter=ID%20eq%20\"SHI-V-1405\"&$top=50&$skip=0"
        /\ (call.module = "classifications" /\ call._filter = None
            /\ call.top = Num(5) /\ call.skip = Num(10))
           => sent[1].url = "http://server/v8/classifications?$top=5&$skip=10"

\* Scenario A has been called.
C1_Witness ==
    /\ GetDone
    /\ call._filter = Str("ID") /\ call.operator = Str("eq")
    /\ call.identifier = Str("SHI-V-1405") /\ call.top = Num(50) /\ call.skip = Num(0)
    /\ sent[1].url =
         "http://server/v8/assets?$filter=ID%20eq%20\"SHI-V-1405\"&$top=50&$skip=0"

\* C2: in non-raw mode every raw result object yields a record with exactly
\* the twelve keys; a scalar key holds the raw value, or null when absent; a
\* reference given as an object is reduced to {ID: its ID} and TypeDetails
\* to {Value: its Value}; every other key, nested or not, is dropped.
C2_NormalizedRecord ==
    NormalizedCall =>
        /\ result.kind = "return"
        /\ result.value.t = "arr"
        /\ Len(result.value.v) = Len(Results.v)
        /\ \A i \in 1..Len(Results.v) :
            LET rawres == Results.v[i]
                rec == result.value.v[i]
            IN  /\ rec.t = "obj"
                /\ DOMAIN rec.v = TwelveKeys
                /\ \A k \in ScalarKeys : rec.v[k] = Field(rawres, k)
                /\ \A k \in NestedKeys :
                    Field(rawres, k).t = "obj" =>
                        rec.v[k] = Obj(InnerKey(k) :> Field(Field(rawres, k), InnerKey(k)))

\* Scenario B: the raw result and its normalized form.
C2_Witness ==
    /\ NormalizedCall
    /\ Results = Arr(<<RecB>>)
    /\ result =
         Return(Arr(<<Obj([PK |-> Num(1), ID |-> Str("X"), Name |-> None,
                            IsLocation |-> None, Vicinity |-> None, Icon |-> None,
                            UDFChar9 |-> None, ParentRef |-> Obj([ID |-> Str("Y")]),
                            ClassificationRef |-> None, RepairCenterRef |-> None,
                            ShopRef |-> None, TypeDetails |-> None])>>))

\* C3: for all raw records, each of the four references of the normalized
\* record is null or an object with exactly the key ID, and TypeDetails is
\* null or an object with exactly the key Value.
C3_NestedShape ==
    (NormalizedCall /\ result.kind = "return") =>
        \A i \in 1..Len(result.value.v) : \A k \in NestedKeys :
            LET x == result.value.v[i].v[k]
            IN  \/ x = None
                \/ x.t = "obj" /\ DOMAIN x.v = {InnerKey(k)}

\* C4: a nested field that is absent, null or not an object raises no error
\* and is normalized to null.
C4_MalformedNestedIsNull ==
    NormalizedCall =>
        /\ result.kind = "return"
        /\ \A i \in 1..Len(Results.v) : \A k \in NestedKeys :
            Field(Results.v[i], k).t # "obj" => result.value.v[i].v[k] = None

\* C5: normalization is idempotent: normalizing the normalized collection
\* returns it unchanged.
C5_Idempotent ==
    (NormalizedCall /\ result.kind = "return") =>
        Normalize(result.value) = Return(result.value)

\* A record that normalization changed has been normalized.
C5_Witness ==
    /\ NormalizedCall
    /\ result.kind = "return"
    /\ Results = Arr(<<RecFull>>)
    /\ result.value # Results
    /\ Normalize(result.value) = result

\* C6: in raw mode the returned collection is the Results value of the body:
\* same length, same order, every element unchanged.
C6_RawUnmodified ==
    (GetDone /\ call.raw /\ HasResults) => result = Return(Results)

\* A raw call over two records, neither of them in normalized form.
C6_Witness ==
    /\ GetDone
    /\ call.raw
    /\ HasResults
    /\ Results = Arr(<<RecB, RecOdd>>)
    /\ result.kind = "return"
    /\ result.value.v[1] = RecB
    /\ result.value.v[2] = RecOdd

\* C7: _post and _put send the batch unchanged as the JSON body to
\* http://<server>/v8/<module> and return the parsed body verbatim whatever
\* the status; _put differs from _post in the method and in the word
\* 'updated' for 'added' of the log, and in nothing else.
C7_MutationPassThrough ==
    MutationDone =>
        /\ sent = <<[method |-> IF call.fn = "_post" THEN "POST" ELSE "PUT",
                     url |-> "http://" \o Server \o "/v8/" \o call.module,
                     json |-> call.data]>>
        /\ response.parseable => result = Return(response.body)
        /\ ~response.parseable => result.kind = "raise"
        /\ call.fn = "_put" =>
            LET prefix == SuccessLine(response.status_code) \o "The "
                          \o DropLast(call.module) \o " has been "
            IN  /\ sent = [PostSend(MutationUrl(call.module), call.data)
                             EXCEPT ![1].method = "PUT"]
                /\ result = PostReturn(response)
                /\ response.ok =>
                    /\ printed = <<prefix \o "updated\n">>
                    /\ PostLog(call.module, response) = prefix \o "added\n"
                /\ ~response.ok => printed = <<PostLog(call.module, response)>>

\* A batch of one record has been PUT, answered 404 with a JSON body.
C7_Witness ==
    /\ MutationDone
    /\ call.fn = "_put"
    /\ call.data = Arr(<<RecFull>>)
    /\ response.status_code = 404
    /\ response.parseable
    /\ result = Return(Obj([Message |-> Str("The request is invalid")]))

\* What _get does with the body when the status is 2xx.
AsOnSuccess ==
    GetCollection(call.raw, [response EXCEPT !.status_code = 200, !.ok = TRUE])

\* C8 as stated: every non-2xx GET response logs the failure line, and the
\* body is then read as on success.
C8_Non2xxLogsFailure ==
    (GetDone /\ response.status_code \notin 200..299) =>
        /\ printed = <<FailureLine(response.status_code)>>
        /\ result = AsOnSuccess
        /\ ~HasResults => result.kind = "raise"

\* C8, amended: the failure line is logged when the status is 400 to 599 and
\* the success line for every other status; whatever the status, the body is
\* read as on success: with a Results value the call gives what a 2xx response
\* with that body gives, and without one an error propagates.
C8_StatusNeverRaises ==
    GetDone =>
        /\ printed = <<IF response.status_code \in 400..599
                       THEN FailureLine(response.status_code)
                       ELSE SuccessLine(response.status_code)>>
        /\ result = AsOnSuccess
        /\ result.exc \in {"", "KeyError", "TypeError", "AttributeError", "JSONDecodeError"}
        /\ (HasResults /\ call.raw) => result = Return(Results)
        /\ ResultObjects => result.kind = "return"
        /\ ~HasResults => result.kind = "raise"
        /\ (response.parseable /\ response.body.t = "obj" /\ ~HasResults)
           => result = Raise("KeyError")

\* A 404 whose body has Results has been normalized, and a 404 without
\* Results has raised KeyError.
C8_Witness ==
    /\ GetDone
    /\ response.status_code = 404
    /\ printed = <<"Connection NOT Successful\nStatus Code: 404\n">>
    /\ \/ ResultObjects /\ Len(Results.v) = 1 /\ result.kind = "return"
       \/ ~HasResults /\ result = Raise("KeyError")

\* C9: every call issues exactly one request, first of all its effects, and
\* ends by returning or by propagating an error.
C9_OneRequest ==
    phase = "done" =>
        /\ Len(sent) = 1
        /\ events[1] = "request"
        /\ \A i \in 2..Len(events) : events[i] # "request"
        /\ events[Len(events)] \in {"return", "raise"}
        /\ result.kind = events[Len(events)]

\* A failed call that a retry would have repeated.
C9_Witness ==
    /\ phase = "done"
    /\ ~response.ok
    /\ result.kind = "raise"
    /\ Len(sent) = 1
    /\ events = <<"request", "print", "json", "raise">>

\* C10: the normalized collection has the length and order of Results, its
\* i-th record is the normalization of the i-th result alone, and the records
\* of a prefix of Results are those the whole array gives.
C10_NoCarryOver ==
    (NormalizedCall /\ result.kind = "return") =>
        /\ Len(result.value.v) = Len(Results.v)
        /\ \A i \in 1..Len(Results.v) :
            /\ Normalize(Arr(<<Results.v[i]>>)) = Return(Arr(<<result.value.v[i]>>))
            /\ DOMAIN result.value.v[i].v = TwelveKeys
            /\ \A k \in ScalarKeys : result.value.v[i].v[k] = Field(Results.v[i], k)
            /\ Normalize(Arr(SubSeq(Results.v, 1, i)))
                 = Return(Arr(SubSeq(result.value.v, 1, i)))

\* A record with PK and ParentRef followed by one that has neither.
C10_Witness ==
    /\ NormalizedCall
    /\ Results = Arr(<<RecB, EmptyDict>>)
    /\ result.kind = "return"
    /\ result.value.v[1].v["PK"] = Num(1)
    /\ result.value.v[2].v["PK"] = None
    /\ result.value.v[2].v["ParentRef"] = None

====
